---- MODULE Spec2Model ----
(***************************************************************************)
(* A model of bmizerany/pqx: the log line router (internal/logplex), the   *)
(* single-execution Start of pqx.Postgres, and the dead-man's-switch       *)
(* watchdog of pqxtest.                                                    *)
(*                                                                         *)
(* Bytes are one-character strings; a byte slice is a sequence of them.    *)
(***************************************************************************)
EXTENDS Integers, Sequences, FiniteSets, TLC

VARIABLES
    lineBuf,    \* Logplex.lineBuf: the bytes of the line being assembled
    sinks,      \* Logplex.sinks: registered key -> writer
    lastSeen,   \* Logplex.lastSeen
    out,        \* every call made on a sink's Write, in order
    last,       \* the last operation on the router, its input and its result
    nops,       \* operations performed so far (bounds the exploration)
    keyed,      \* history: <<k>> when the last line routed that had a separator had key k
    former,     \* history: key -> the writer Unwatch removed ("nil": none), until the next Watch
    stream,     \* a byte stream of complete lines a writer sends in pieces
    rest,       \* the part of stream not yet written
    mu,         \* Logplex.mu: the goroutine inside Write, or "free"
    gs,         \* each writing goroutine: where it is in Write, and what is left of p
    wrote,      \* history: how often each line was passed to Write
    cops,       \* calls started on the shared router (bounds the exploration)
    pg,         \* the Postgres instance: err, db, cmd, readyCtx
    startOnce,  \* Postgres.startOnce: its done flag and who holds its mutex
    callers,    \* each goroutine calling Start: where it is, what it returned
    postgres,   \* the postgres child process
    runs,       \* history: how often do() was entered, how often the child was launched
    rets,       \* history: every value a call of Start returned
    parent,     \* the owning program (the process that calls pqxtest.Start)
    watchdog,   \* the supervisor process started by shutThisDownAfterMyDeath
    pipe,       \* the processes that hold the write end of the watchdog's stdin pipe
    stop,       \* the goroutine calling Shutdown or ShutdownAlone: where it is, what it returned
    dbs,        \* the databases made by CreateDB: connected, being dropped, dropped
    bo,         \* a Backoff: n, maxBackoff, and the call of BackOff in progress
    poll        \* pingUntilUp: where it is, the caller's ctx, what it returned

logplexVars == <<lineBuf, sinks, lastSeen, out>>

opVars == <<last, nops, keyed, former>>

chunkVars == <<stream, rest>>

concVars == <<mu, gs, wrote, cops>>

pgVars == <<pg, startOnce, callers, postgres, runs, rets>>

supVars == <<parent, watchdog, pipe>>

stopVars == <<stop, dbs>>

pingVars == <<bo, poll>>

vars == <<lineBuf, sinks, lastSeen, out, last, nops, keyed, former, stream, rest,
          mu, gs, wrote, cops, pg, startOnce, callers, postgres, runs, rets,
          parent, watchdog, pipe, stop, dbs, bo, poll>>

----------------------------------------------------------------------------
(* Bounds *)

MaxOps == 3

MaxLines == 2

MaxConcOps == 5

----------------------------------------------------------------------------
(* Bytes and byte slices *)

newline == <<"\n">>

\* the separator of testSplitter
sep == <<":", ":">>

\* unicode.IsSpace on the bytes of the model's alphabet
IsSpace(c) == c \in {"\t", "\n", " "}

Min(S) == CHOOSE x \in S : \A y \in S : x <= y

\* bytes.Index
Index(s, t) ==
    LET I == {i \in 1..(Len(s) - Len(t) + 1) : SubSeq(s, i, i + Len(t) - 1) = t}
    IN  IF I = {} THEN 0 ELSE Min(I)

\* bytes.Cut
Cut(s, t) ==
    LET i == Index(s, t)
    IN  IF i = 0
        THEN [before |-> s, after |-> <<>>, found |-> FALSE]
        ELSE [before |-> SubSeq(s, 1, i - 1),
              after  |-> SubSeq(s, i + Len(t), Len(s)),
              found  |-> TRUE]

\* the number of newline bytes in p
RECURSIVE CountNewlines(_)
CountNewlines(p) ==
    IF p = <<>> THEN 0
    ELSE (IF Head(p) = "\n" THEN 1 ELSE 0) + CountNewlines(Tail(p))

----------------------------------------------------------------------------
(* The router, as operators on a record of its fields *)

\* the default sink, Logplex.Sink
Sink == "Sink"

\* the writers callers register
Writers == {"w1", "w2"}

\* the keys callers register
Keys == {<<"a">>, <<"b">>}

NoSinks == [k \in {} |-> "w1"]

\* one call of w.Write(payload); ok is whether it returned a nil error
SinkCall(w, payload, ok) == [sink |-> w, payload |-> payload, ok |-> ok]

LP == [lineBuf |-> lineBuf, sinks |-> sinks, lastSeen |-> lastSeen, out |-> out]

\* testSplitter: cut at the first separator; no separator: nil key, whole line
Split(line) ==
    LET c == Cut(line, sep)
    IN  IF c.found
        THEN [key |-> c.before, message |-> c.after]
        ELSE [key |-> <<>>, message |-> line]

isContinuation(line) == Len(line) > 0 /\ IsSpace(line[1])

\* fail: the sink write this call makes (if any) returns an error
maybeWriteContinuation(lp, line, fail) ==
    IF isContinuation(line) /\ lp.lastSeen \in DOMAIN lp.sinks
    THEN [lp   |-> [lp EXCEPT !.out =
                        Append(@, SinkCall(lp.sinks[lp.lastSeen], line, ~fail))],
          sent |-> ~fail,
          err  |-> fail]
    ELSE [lp |-> lp, sent |-> FALSE, err |-> FALSE]

\* a sendKeyed that hands the registered writer the key and separator too
sendKeyedWithKey(lp, key, message, fail) ==
    LET lp1 == [lp EXCEPT !.lastSeen = key]
    IN  IF key \in DOMAIN lp1.sinks
        THEN [lp   |-> [lp1 EXCEPT !.out =
                           Append(@, SinkCall(lp1.sinks[key],
                                              key \o sep \o message, ~fail))],
              sent |-> TRUE,
              err  |-> fail]
        ELSE [lp |-> lp1, sent |-> FALSE, err |-> FALSE]

\* sendLine once the line was not sent as a continuation: record the key,
\* look it up in sinks
sendKeyed(lp, key, message, fail) ==
    LET lp1 == [lp EXCEPT !.lastSeen = key]
    IN  IF key \in DOMAIN lp1.sinks
        THEN [lp   |-> [lp1 EXCEPT !.out =
                           Append(@, SinkCall(lp1.sinks[key], message, ~fail))],
              sent |-> TRUE,
              err  |-> fail]
        ELSE [lp |-> lp1, sent |-> FALSE, err |-> FALSE]

sendLine(lp, line, fail) ==
    LET s == Split(line)
        c == maybeWriteContinuation(lp, s.message, fail)
    IN  IF c.err THEN [lp |-> c.lp, sent |-> FALSE, err |-> TRUE]
        ELSE IF c.sent THEN [lp |-> c.lp, sent |-> TRUE, err |-> FALSE]
        ELSE sendKeyed(c.lp, s.key, s.message, fail)

\* the end of flushLocked, r being what sendLine returned: a line not sent
\* goes to Sink; the deferred lineBuf.Reset() runs on every path
afterSendLine(lp, r, fail) ==
    IF r.err \/ r.sent
    THEN [lp |-> [r.lp EXCEPT !.lineBuf = <<>>], err |-> r.err]
    ELSE [lp  |-> [r.lp EXCEPT !.out = Append(@, SinkCall(Sink, lp.lineBuf, ~fail)),
                               !.lineBuf = <<>>],
          err |-> fail]

\* a flushLocked that hands a line whose sink failed to Sink and reports
\* no error
flushLockedFallback(lp, fail) ==
    LET r == afterSendLine(lp, sendLine(lp, lp.lineBuf, fail), fail)
    IN  IF r.err
        THEN [lp  |-> [r.lp EXCEPT !.out = Append(@, SinkCall(Sink, lp.lineBuf, TRUE))],
              err |-> FALSE]
        ELSE r

flushLocked(lp, fail) == afterSendLine(lp, sendLine(lp, lp.lineBuf, fail), fail)

\* the loop of Write: p is what is left of p0, k numbers the next flush and
\* failAt is the flush whose sink write fails (0: none)
RECURSIVE WriteLoop(_, _, _, _, _)
WriteLoop(lp, p0, p, k, failAt) ==
    LET c   == Cut(p, newline)
        lp1 == [lp EXCEPT !.lineBuf = @ \o c.before]
    IN  IF c.found
        THEN LET f == flushLocked([lp1 EXCEPT !.lineBuf = @ \o newline], k = failAt)
             IN  IF f.err
                 THEN [lp |-> f.lp, n |-> 0, err |-> TRUE]
                 ELSE WriteLoop(f.lp, p0, c.after, k + 1, failAt)
        ELSE [lp |-> lp1, n |-> Len(p0), err |-> FALSE]

\* a Write that starts each call with an empty line buffer
DoWriteForgetful(lp, p, failAt) ==
    WriteLoop([lp EXCEPT !.lineBuf = <<>>], p, p, 1, failAt)

\* a Write that also flushes the unterminated piece it ends with
DoWriteEager(lp, p, failAt) ==
    LET r == WriteLoop(lp, p, p, 1, failAt)
    IN  IF r.err \/ r.lp.lineBuf = <<>> THEN r
        ELSE [r EXCEPT !.lp = flushLocked(r.lp, FALSE).lp]

\* a Write that reports the bytes it delivered, not the bytes it accepted
DoWriteShort(lp, p, failAt) ==
    LET r == WriteLoop(lp, p, p, 1, failAt)
    IN  [r EXCEPT !.n = IF r.err THEN 0 ELSE Len(p) - Len(r.lp.lineBuf)]

\* Write, from its first statement to its return
DoWrite(lp, p, failAt) == WriteLoop(lp, p, p, 1, failAt)

----------------------------------------------------------------------------
(* Lines, as the history of the router sees them *)

RECURSIVE Concat(_)
Concat(ls) == IF ls = <<>> THEN <<>> ELSE Head(ls) \o Concat(Tail(ls))

\* the complete lines of s, each with its newline, in order
RECURSIVE LinesOf(_)
LinesOf(s) ==
    LET c == Cut(s, newline)
    IN  IF c.found THEN <<c.before \o newline>> \o LinesOf(c.after) ELSE <<>>

HasSep(line) == Cut(line, sep).found

\* the first n elements of s, or all of s when it has fewer
Take(s, n) == SubSeq(s, 1, IF n < Len(s) THEN n ELSE Len(s))

\* keyed after the lines ls were routed
RECURSIVE KeyedAfter(_, _)
KeyedAfter(kd, ls) ==
    IF ls = <<>> THEN kd
    ELSE KeyedAfter(IF HasSep(Head(ls)) THEN <<Split(Head(ls)).key>> ELSE kd, Tail(ls))

----------------------------------------------------------------------------
(* The operations of the router, each under lp.mu from entry to return *)

\* what callers write: whole lines, pieces of lines, several lines
Chunks ==
    { <<"a", ":", ":", "h", "e", "l", "l", "o", "\n">>,
      <<"a", ":", ":", "w", "o", "r">>,
      <<"l", "d", "\n">>,
      <<"b", ":", ":", "x", "\n">>,
      <<"x", "\n">>,
      <<"\t", "x", "\n">>,
      <<"a", ":", ":", "\t", "x", "\n">>,
      <<"b", ":">>,
      <<":", "x", "\n">>,
      <<"b", ":", ":", "x", "\n", "x", "\n", "\t", "x", "\n">>,
      <<"b", ":", ":", "y", "\n", "a", ":", ":", "\t", "x", "\n">>,
      <<"x", "\n", "a", ":">> }

Install(lp) ==
    /\ lineBuf'  = lp.lineBuf
    /\ sinks'    = lp.sinks
    /\ lastSeen' = lp.lastSeen
    /\ out'      = lp.out

Before(kind) ==
    [kind |-> kind, p |-> <<>>, key |-> <<>>, n |-> 0, err |-> FALSE,
     out0 |-> Len(out), buf0 |-> lineBuf, seen0 |-> lastSeen, sinks0 |-> sinks,
     keyed0 |-> keyed]

Watch(prefix, w) ==
    /\ nops < MaxOps
    /\ sinks' = [k \in DOMAIN sinks \cup {prefix} |->
                    IF k = prefix THEN w ELSE sinks[k]]
    /\ last' = [Before("Watch") EXCEPT !.key = prefix]
    /\ nops' = nops + 1
    /\ former' = [k \in DOMAIN former \ {prefix} |-> former[k]]
    /\ keyed' = keyed
    /\ UNCHANGED <<lineBuf, lastSeen, out>>
    /\ UNCHANGED <<chunkVars, concVars, pgVars, supVars, stopVars, pingVars>>

Unwatch(prefix) ==
    /\ nops < MaxOps
    /\ sinks' = [k \in DOMAIN sinks \ {prefix} |-> sinks[k]]
    /\ last' = [Before("Unwatch") EXCEPT !.key = prefix]
    /\ nops' = nops + 1
    /\ former' = [k \in DOMAIN former \cup {prefix} |->
                     IF k # prefix THEN former[k]
                     ELSE IF prefix \in DOMAIN sinks THEN sinks[prefix] ELSE "nil"]
    /\ keyed' = keyed
    /\ UNCHANGED <<lineBuf, lastSeen, out>>
    /\ UNCHANGED <<chunkVars, concVars, pgVars, supVars, stopVars, pingVars>>

Write(p, failAt) ==
    /\ nops < MaxOps
    /\ LET r == DoWrite(LP, p, failAt)
       IN  /\ Install(r.lp)
           /\ last' = [Before("Write") EXCEPT !.p = p, !.n = r.n, !.err = r.err]
           /\ keyed' = KeyedAfter(keyed, Take(LinesOf(lineBuf \o p),
                                              Len(r.lp.out) - Len(out)))
    /\ nops' = nops + 1
    /\ UNCHANGED <<former, chunkVars, concVars, pgVars, supVars, stopVars, pingVars>>

Flush(fail) ==
    /\ nops < MaxOps
    /\ LET r == flushLocked(LP, fail)
       IN  /\ Install(r.lp)
           /\ last' = [Before("Flush") EXCEPT !.err = r.err]
    /\ keyed' = KeyedAfter(keyed, <<lineBuf>>)
    /\ nops' = nops + 1
    /\ UNCHANGED <<former, chunkVars, concVars, pgVars, supVars, stopVars, pingVars>>

\* a Logplex as Start constructs it: no sinks, nothing buffered
InitLogplex ==
    /\ lineBuf = <<>>
    /\ sinks = NoSinks
    /\ lastSeen = <<>>
    /\ out = <<>>
    /\ last = [kind |-> "new", p |-> <<>>, key |-> <<>>, n |-> 0, err |-> FALSE,
               out0 |-> 0, buf0 |-> <<>>, seen0 |-> <<>>, sinks0 |-> NoSinks,
               keyed0 |-> <<>>]
    /\ nops = 0
    /\ keyed = <<>>
    /\ former = [k \in {} |-> "nil"]

\* the goroutines that write to one router (cmd.Stdout and cmd.Stderr)
Goroutines == {"g1", "g2"}

\* the lines goroutines write whole
ConcLines ==
    { <<"a", ":", ":", "x", "\n">>,
      <<"b", ":", ":", "y", "\n">>,
      <<"z", "\n">>,
      <<"\t", "c", "\n">> }

Idle == [pc |-> "idle", p |-> <<>>, routed |-> <<>>]

NoStream ==
    /\ stream = <<>>
    /\ rest = <<>>

NoGoroutines ==
    /\ mu = "free"
    /\ gs = [g \in Goroutines |-> Idle]
    /\ wrote = [l \in ConcLines |-> 0]
    /\ cops = 0

\* the goroutines of the owning program that call Start
Callers == {"main", "g2"}

\* a Postgres value before the first Start: the zero value of the struct
NotStarted ==
    /\ pg = [err |-> "nil", db |-> "nil", cmd |-> "nil", readyCtx |-> "nil",
             launcher |-> "none"]
    /\ startOnce = [done |-> FALSE, m |-> "free"]
    /\ callers = [c \in Callers |->
                    [pc |-> "idle", ret |-> "nil", calls |-> 0, waited |-> FALSE,
                     ctx |-> FALSE]]
    /\ postgres = [state |-> "none", sig |-> FALSE, cause |-> "none"]
    /\ runs = [do |-> 0, launch |-> 0]
    /\ rets = {}

\* the owning program before pqxtest.Start: no watchdog, no pipe
NoWatchdog ==
    /\ parent = [pc |-> "init", started |-> FALSE, how |-> "none", sup |-> "none",
                 env |-> <<>>, signals |-> 0]
    /\ watchdog = [pc |-> "none", code |-> 0, signaled |-> FALSE, env |-> <<>>,
                   signals |-> 0]
    /\ pipe = {}

\* nobody has called Shutdown or CreateDB
NotStopped ==
    /\ stop = [pc |-> "idle", alone |-> FALSE, ret |-> "nil", calls |-> 0,
               signaled |-> FALSE, waited |-> FALSE, dropping |-> {}, code |-> 0,
               child |-> [state |-> "none", sig |-> FALSE, cause |-> "none"]]
    /\ dbs = [k \in {} |-> "open"]

\* NewBackoff(name, logf, maxBackoff), times in milliseconds
NewBackoff(maxBackoff) ==
    [n |-> 0, maxBackoff |-> maxBackoff, pc |-> "idle", err |-> "none",
     prev |-> "none", d |-> 0, sleep |-> 0, timer |-> "none", ctx |-> FALSE,
     woke |-> "none", logs |-> 0, calls |-> 0]

\* nobody polls: the Backoff pingUntilUp would make, with its limit of 1s
NotPolling ==
    /\ bo = NewBackoff(1000)
    /\ poll = [pc |-> "idle", ctx |-> FALSE, up |-> FALSE, ret |-> "none",
               pings |-> 0, okAt |-> 0, err |-> "none", readyAt |-> "none"]

Init ==
    /\ InitLogplex
    /\ NoStream
    /\ NoGoroutines
    /\ NotStarted
    /\ NoWatchdog
    /\ NotStopped
    /\ NotPolling

Next ==
    \/ \E k \in Keys, w \in Writers : Watch(k, w)
    \/ \E k \in Keys : Unwatch(k)
    \/ \E p \in Chunks : \E failAt \in 0..CountNewlines(p) : Write(p, failAt)
    \/ \E fail \in BOOLEAN : Flush(fail)

Spec == Init /\ [][Next]_vars

----------------------------------------------------------------------------
(* One writer sending a stream of complete lines in pieces of any size,    *)
(* the sinks registered beforehand                                         *)

\* the lines a stream is made of
Lines ==
    { <<"a", ":", ":", "x", "\n">>,
      <<"b", ":", ":", "y", "\n">>,
      <<"z", "\n">>,
      <<"\t", "c", "\n">>,
      <<"a", ":", ":", "\t", "d", "\n">>,
      <<"\n">> }

Streams == {Concat(ls) : ls \in UNION {[1..n -> Lines] : n \in 1..MaxLines}}

InitChunk ==
    /\ InitLogplex
    /\ NoGoroutines
    /\ NotStarted
    /\ NoWatchdog
    /\ NotStopped
    /\ NotPolling
    /\ stream \in Streams
    /\ rest = stream

\* Watch before the first byte is written
ChunkWatch(prefix, w) ==
    /\ rest = stream
    /\ sinks' = [k \in DOMAIN sinks \cup {prefix} |->
                    IF k = prefix THEN w ELSE sinks[k]]
    /\ UNCHANGED <<lineBuf, lastSeen, out>>
    /\ UNCHANGED <<opVars, chunkVars, concVars, pgVars, supVars, stopVars, pingVars>>

\* Write of the next n bytes of the stream, no sink failing
ChunkWrite(n) ==
    /\ n \in 1..Len(rest)
    /\ LET p == SubSeq(rest, 1, n)
           r == DoWrite(LP, p, 0)
       IN  /\ Install(r.lp)
           /\ last' = [Before("Write") EXCEPT !.p = p, !.n = r.n, !.err = r.err]
    /\ rest' = SubSeq(rest, n + 1, Len(rest))
    /\ UNCHANGED <<nops, keyed, former, stream, concVars, pgVars, supVars, stopVars, pingVars>>

NextChunk ==
    \/ \E k \in Keys, w \in Writers : ChunkWatch(k, w)
    \/ \E n \in 1..Len(rest) : ChunkWrite(n)

SpecChunk == InitChunk /\ [][NextChunk]_vars

\* the payloads writer w was called with, in order
Calls(w, o) ==
    LET sel == SelectSeq(o, LAMBDA c : c.sink = w)
    IN  [i \in 1..Len(sel) |-> sel[i].payload]

\* the router after the complete lines of s, each classified and routed in
\* turn as one whole line
RECURSIVE RouteLines(_, _)
RouteLines(lp, s) ==
    IF s = <<>> THEN lp
    ELSE LET c == Cut(s, newline)
         IN  RouteLines(flushLocked([lp EXCEPT !.lineBuf = c.before \o newline],
                                    FALSE).lp,
                        c.after)

\* the bytes of stream written so far
Written == SubSeq(stream, 1, Len(stream) - Len(rest))

\* the complete lines of s, without the unterminated piece that ends it
RECURSIVE CompleteLines(_)
CompleteLines(s) ==
    IF s = <<>> \/ s[Len(s)] = "\n" THEN s
    ELSE CompleteLines(SubSeq(s, 1, Len(s) - 1))

----------------------------------------------------------------------------
(* Goroutines sharing one router: Write statement by statement, under      *)
(* lp.mu; the sinks do not fail                                            *)

\* a Lock that never waits
MutexIgnored == TRUE

\* lp.mu.Lock() returns only while no goroutine holds the mutex
MutexFree == mu = "free"

\* what one call writes: whole lines
ConcChunks ==
    ConcLines \cup {<<"a", ":", ":", "x", "\n", "\t", "c", "\n">>}

\* how often line l occurs in the sequence of lines ls
Occurs(l, ls) == Cardinality({i \in 1..Len(ls) : ls[i] = l})

\* Write: the mutex taken, p0 := p
ConcLock(g, p) ==
    /\ cops < MaxConcOps
    /\ gs[g].pc = "idle"
    /\ MutexFree
    /\ mu' = g
    /\ gs' = [gs EXCEPT ![g] = [pc |-> "loop", p |-> p, routed |-> <<>>]]
    /\ wrote' = [l \in ConcLines |-> wrote[l] + Occurs(l, LinesOf(p))]
    /\ cops' = cops + 1
    /\ UNCHANGED <<logplexVars, opVars, chunkVars, pgVars, supVars, stopVars, pingVars>>

\* Write: one turn of the loop up to the call of flushLocked, or the return
\* (with the deferred Unlock)
ConcCut(g) ==
    /\ gs[g].pc = "loop"
    /\ LET c == Cut(gs[g].p, newline)
       IN  IF c.found
           THEN /\ lineBuf' = lineBuf \o c.before \o newline
                /\ gs' = [gs EXCEPT ![g].pc = "flush", ![g].p = c.after]
                /\ mu' = mu
           ELSE /\ lineBuf' = lineBuf \o c.before
                /\ gs' = [gs EXCEPT ![g] = Idle]
                /\ mu' = "free"
    /\ UNCHANGED <<sinks, lastSeen, out, wrote, cops, opVars, chunkVars, pgVars, supVars, stopVars, pingVars>>

\* flushLocked and sendLine up to the return of maybeWriteContinuation,
\* which reads sinks[lastSeen]; routed remembers the router as it was
ConcContinuation(g) ==
    /\ gs[g].pc = "flush"
    /\ LET c == maybeWriteContinuation(LP, Split(lineBuf).message, FALSE)
           snap == [line |-> lineBuf, sinks |-> sinks, lastSeen |-> lastSeen,
                    at |-> Len(out) + 1]
       IN  IF c.sent
           THEN /\ Install(afterSendLine(LP, c, FALSE).lp)
                /\ gs' = [gs EXCEPT ![g].pc = "loop", ![g].routed = <<snap>>]
           ELSE /\ gs' = [gs EXCEPT ![g].pc = "lookup", ![g].routed = <<snap>>]
                /\ UNCHANGED logplexVars
    /\ UNCHANGED <<mu, wrote, cops, opVars, chunkVars, pgVars, supVars, stopVars, pingVars>>

\* sendLine from lp.lastSeen = key on, which ranges over sinks, and the end
\* of flushLocked
ConcLookup(g) ==
    /\ gs[g].pc = "lookup"
    /\ LET s == Split(lineBuf)
       IN  Install(afterSendLine(LP, sendKeyed(LP, s.key, s.message, FALSE), FALSE).lp)
    /\ gs' = [gs EXCEPT ![g].pc = "loop"]
    /\ UNCHANGED <<mu, wrote, cops, opVars, chunkVars, pgVars, supVars, stopVars, pingVars>>

\* Watch by a goroutine of its own: Lock, the assignment, Unlock
ConcWatch(prefix, w) ==
    /\ cops < MaxConcOps
    /\ MutexFree
    /\ sinks' = [k \in DOMAIN sinks \cup {prefix} |->
                    IF k = prefix THEN w ELSE sinks[k]]
    /\ cops' = cops + 1
    /\ UNCHANGED <<lineBuf, lastSeen, out, mu, gs, wrote, opVars, chunkVars, pgVars, supVars, stopVars, pingVars>>

\* Unwatch by a goroutine of its own: Lock, the delete, Unlock
ConcUnwatch(prefix) ==
    /\ cops < MaxConcOps
    /\ MutexFree
    /\ sinks' = [k \in DOMAIN sinks \ {prefix} |-> sinks[k]]
    /\ cops' = cops + 1
    /\ UNCHANGED <<lineBuf, lastSeen, out, mu, gs, wrote, opVars, chunkVars, pgVars, supVars, stopVars, pingVars>>

NextConc ==
    \/ \E g \in Goroutines, p \in ConcChunks : ConcLock(g, p)
    \/ \E g \in Goroutines : ConcCut(g)
    \/ \E g \in Goroutines : ConcContinuation(g)
    \/ \E g \in Goroutines : ConcLookup(g)
    \/ \E k \in Keys, w \in Writers : ConcWatch(k, w)
    \/ \E k \in Keys : ConcUnwatch(k)

SpecConc == Init /\ [][NextConc]_vars

\* the sink calls that carry line l, whole or as its message
CallsFor(l) ==
    Cardinality({i \in 1..Len(out) : out[i].payload \in {l, Split(l).message}})

\* the one sink call that routing snap.line makes on the router as snap
\* remembers it
CallUnder(snap) ==
    flushLocked([lineBuf |-> snap.line, sinks |-> snap.sinks,
                 lastSeen |-> snap.lastSeen, out |-> <<>>], FALSE).lp.out[1]

\* C3: with goroutines writing whole lines while others Watch and Unwatch,
\* no line reaches a sink more often than it was written and every sink
\* call carries a written line; once every Write has returned each line
\* has been delivered exactly as often as it was written (none dropped,
\* none to two sinks); and the call made for a line is the one the sink
\* table and last-seen key as they were when its routing began determine.
ConcurrentWritesRouteAtomically ==
    /\ \A l \in ConcLines : CallsFor(l) <= wrote[l]
    /\ \A i \in 1..Len(out) :
            \E l \in ConcLines : out[i].payload \in {l, Split(l).message}
    /\ (\A g \in Goroutines : gs[g].pc = "idle") =>
            /\ \A l \in ConcLines : CallsFor(l) = wrote[l]
            /\ lineBuf = <<>>
    /\ \A g \in Goroutines :
            (gs[g].pc = "loop" /\ gs[g].routed # <<>>) =>
                /\ gs[g].routed[1].at <= Len(out)
                /\ out[gs[g].routed[1].at] = CallUnder(gs[g].routed[1])

\* g1 has its line routed to a registered writer and still holds the
\* mutex, after g2 wrote and a Watch took effect
WitnessConcurrentWriters ==
    /\ gs["g1"].pc = "loop"
    /\ gs["g1"].routed # <<>>
    /\ mu = "g1"
    /\ Len(out) = 2
    /\ out[1].sink = Sink
    /\ out[2].sink \in Writers
    /\ cops = 3

----------------------------------------------------------------------------
(* What the last operation on the router did *)

\* the sink calls the last operation made
Made == Len(out) - last.out0

MadeCall(i) == out[last.out0 + i]

\* the complete lines the last Write found: those of the buffered piece
\* followed by p
WLines == LinesOf(last.buf0 \o last.p)

\* the router as it was when line i of the last Write was routed
WBefore(i) ==
    RouteLines([lineBuf |-> <<>>, sinks |-> last.sinks0,
                lastSeen |-> last.seen0, out |-> <<>>],
               Concat(SubSeq(WLines, 1, i - 1)))

hello == <<"a", ":", ":", "h", "e", "l", "l", "o", "\n">>
wor   == <<"a", ":", ":", "w", "o", "r">>
ld    == <<"l", "d", "\n">>

\* C9: a Write without a newline makes no sink call and only buffers; sink
\* calls are made only by a Write that completes a line or by Flush; the
\* i-th call of a Write carries the i-th line it completed (whole, or its
\* message), so no line is delivered twice and none before its newline;
\* and each step of the scenario "a::hello\n", "a::wor", "ld\n" with a
\* writer registered for "a" makes exactly the stated call.
DeliveredOnlyWhenCompleteAndOnce ==
    /\ last.kind \in {"new", "Watch", "Unwatch"} => Made = 0
    /\ last.kind = "Flush" => Made <= 1
    /\ last.kind = "Write" =>
        /\ CountNewlines(last.p) = 0 =>
                Made = 0 /\ lineBuf = last.buf0 \o last.p
        /\ Made <= CountNewlines(last.p)
        /\ \A i \in 1..Made :
                MadeCall(i).payload \in {WLines[i], Split(WLines[i]).message}
        /\ CountNewlines(lineBuf) = 0
        /\ (last.p = hello /\ last.buf0 = <<>> /\ <<"a">> \in DOMAIN sinks) =>
                /\ Made = 1
                /\ MadeCall(1) = SinkCall(sinks[<<"a">>],
                                          <<"h", "e", "l", "l", "o", "\n">>, ~last.err)
        /\ (last.p = wor /\ last.buf0 = <<>>) => Made = 0 /\ lineBuf = wor
        /\ (last.p = ld /\ last.buf0 = wor /\ <<"a">> \in DOMAIN sinks) =>
                /\ Made = 1
                /\ MadeCall(1) = SinkCall(sinks[<<"a">>],
                                          <<"w", "o", "r", "l", "d", "\n">>, ~last.err)

\* "ld\n" written after "a::wor" with w1 registered for "a"
WitnessLineCompletedAcrossWrites ==
    /\ last.kind = "Write"
    /\ last.p = ld
    /\ last.buf0 = wor
    /\ ~last.err
    /\ <<"a">> \in DOMAIN sinks
    /\ out = <<SinkCall("w1", <<"w", "o", "r", "l", "d", "\n">>, TRUE)>>

\* the sink the dispatch order names for a line: the writer registered for
\* its key, else for a continuation line (leading whitespace, no separator)
\* the writer registered for the last-seen key, else the default sink
ClaimedSink(tbl, seen, line) ==
    IF HasSep(line) /\ Split(line).key \in DOMAIN tbl THEN tbl[Split(line).key]
    ELSE IF ~HasSep(line) /\ isContinuation(line) /\ seen \in DOMAIN tbl THEN tbl[seen]
    ELSE Sink

\* C2: every line a Write completes is delivered in exactly one sink call,
\* to the writer registered for its key if there is one, else (continuation
\* line) to the writer registered for the last-seen key if there is one,
\* else to the default sink.
EachLineToTheSinkOfItsKey ==
    last.kind = "Write" =>
        /\ ~last.err => Made = Len(WLines)
        /\ \A i \in 1..Made :
                MadeCall(i).sink =
                    ClaimedSink(last.sinks0, WBefore(i).lastSeen, WLines[i])

\* C6: a line for a key that no Watch has named yet goes to the default
\* sink; Watch itself delivers nothing (no redelivery); and a writer is
\* only ever called for a line routed while it is registered.
LinesBeforeWatchGoToDefault ==
    /\ last.kind = "Watch" => Made = 0
    /\ last.kind = "Write" =>
        \A i \in 1..Made :
            /\ MadeCall(i).sink \in {Sink} \cup {last.sinks0[k] : k \in DOMAIN last.sinks0}
            /\ ( /\ HasSep(WLines[i])
                 /\ Split(WLines[i]).key \notin DOMAIN last.sinks0
                 /\ Split(WLines[i]).key \notin DOMAIN former )
               => MadeCall(i).sink = Sink

\* C7: once Unwatch(key) has returned (and until key is watched again),
\* every line for key goes to the default sink, none to the writer that
\* was registered.
LinesAfterUnwatchGoToDefault ==
    last.kind = "Write" =>
        \A i \in 1..Made :
            (HasSep(WLines[i]) /\ Split(WLines[i]).key \in DOMAIN former)
            => /\ MadeCall(i).sink = Sink
               /\ MadeCall(i).sink # former[Split(WLines[i]).key]

\* C8: a continuation line goes to the writer registered for the key of the
\* most recently routed keyed line, whatever unkeyed lines came in between,
\* and to the default sink when that key has no writer.
ContinuationFollowsLastKeyedLine ==
    last.kind = "Write" =>
        \A i \in 1..Made :
            (~HasSep(WLines[i]) /\ isContinuation(WLines[i]))
            => LET kd == KeyedAfter(last.keyed0, SubSeq(WLines, 1, i - 1))
               IN  MadeCall(i).sink =
                       IF kd # <<>> /\ kd[1] \in DOMAIN last.sinks0
                       THEN last.sinks0[kd[1]]
                       ELSE Sink

\* C10: a Write that returns no error has delivered every line it
\* completed, and the default sink has received each of them whose key has
\* no registered writer (keyed with an unregistered key, or unattributed).
NoLineDroppedDefaultGetsUnregistered ==
    (last.kind = "Write" /\ ~last.err) =>
        /\ Made = Len(WLines)
        /\ \A i \in 1..Made :
                /\ MadeCall(i).payload \in {WLines[i], Split(WLines[i]).message}
                /\ ( \/ (HasSep(WLines[i]) /\ Split(WLines[i]).key \notin DOMAIN last.sinks0)
                     \/ (~HasSep(WLines[i]) /\ ~isContinuation(WLines[i])) )
                   => MadeCall(i) = SinkCall(Sink, WLines[i], TRUE)

\* C11: when a sink write of a Write or a Flush returns an error, that
\* call is the last the operation makes (the failed line is not tried
\* again, not handed to another sink, and the lines after it in p are not
\* routed), the operation returns the error (Write with n = 0), and the
\* line buffer is empty afterwards; and an operation returns an error only
\* when a sink write of its own failed
SinkErrorShortCircuits ==
    last.kind \in {"Write", "Flush"} =>
        /\ \A i \in 1..Made : ~MadeCall(i).ok => (i = Made /\ last.err)
        /\ last.err =>
              /\ Made >= 1
              /\ ~MadeCall(Made).ok
              /\ last.n = 0
              /\ lineBuf = <<>>
              /\ last.kind = "Write" =>
                    /\ Made <= Len(WLines)
                    /\ MadeCall(Made).payload \in
                          {WLines[Made], Split(WLines[Made]).message}

\* a Write of three lines whose second line's sink failed: one call made
\* well, then the failed one, nothing for the third line
WitnessSecondLineFails ==
    /\ last.kind = "Write"
    /\ last.p = <<"b", ":", ":", "x", "\n", "x", "\n", "\t", "x", "\n">>
    /\ last.err
    /\ Made = 2
    /\ MadeCall(1).ok
    /\ MadeCall(2) = SinkCall(Sink, <<"x", "\n">>, FALSE)

\* C12: a Write none of whose sink writes failed returns len(p) and no
\* error, whatever newlines p holds
WriteAcceptsAllOfP ==
    (last.kind = "Write" /\ \A i \in 1..Made : MadeCall(i).ok) =>
        /\ last.n = Len(last.p)
        /\ ~last.err

\* a Write of one line and the start of the next returned 4
WitnessWriteWithTrailingPiece ==
    /\ last.kind = "Write"
    /\ last.p = <<"x", "\n", "a", ":">>
    /\ last.n = 4
    /\ ~last.err
    /\ Made = 1
    /\ lineBuf = <<"a", ":">>

\* C13: what the last Write or Flush handed to a registered writer is the
\* message of the line (key and separator stripped), and what it handed
\* to the default sink is the whole line, key and separator included
PayloadIsMessageOrWholeLine ==
    /\ last.kind = "Write" =>
          \A i \in 1..Made :
             i <= Len(WLines) /\
             IF MadeCall(i).sink = Sink
             THEN MadeCall(i).payload = WLines[i]
             ELSE MadeCall(i).payload = Split(WLines[i]).message
    /\ last.kind = "Flush" =>
          \A i \in 1..Made :
             IF MadeCall(i).sink = Sink
             THEN MadeCall(i).payload = last.buf0
             ELSE MadeCall(i).payload = Split(last.buf0).message

\* "b::x\n" written before b was registered reached Sink whole, and
\* written again once b was registered reached the writer as "x\n"
WitnessKeyStrippedOnlyForWriter ==
    /\ last.kind = "Write"
    /\ Len(out) = 2
    /\ out[1] = SinkCall(Sink, <<"b", ":", ":", "x", "\n">>, TRUE)
    /\ out[2] = SinkCall("w1", <<"x", "\n">>, TRUE)

----------------------------------------------------------------------------
(* Postgres.Start: sync.Once around do(), called by several goroutines      *)

\* calls of Start each goroutine makes at most
MaxStarts == 2

\* the owning program runs: its goroutines take steps
Alive == parent.pc # "exited"

\* where a goroutine can be inside do()
DoStages == {"fetch", "initdb", "port", "launch", "open", "ping"}

\* a Lock of the Once's mutex that never waits
OnceNeverHeld == TRUE

\* o.m.Lock() in Once.doSlow returns only while no goroutine holds the mutex
OnceUnlocked == startOnce.m = "free"

\* p.Flush(): the router's Flush on p.out, whose sink (logf) does not fail
FlushOut == Install(flushLocked(LP, FALSE).lp)

\* a guard that lets do() run again after a failure: done is set on
\* success only
FinishRetry(c, err) ==
    /\ pg' = [pg EXCEPT !.err = err]
    /\ startOnce' = [done |-> err = "nil", m |-> "free"]
    /\ callers' = [callers EXCEPT ![c].pc = "return"]

\* do() returns err: p.err = err, then the Once's deferred done.Store(1)
\* and Unlock
Finish(c, err) ==
    /\ pg' = [pg EXCEPT !.err = err]
    /\ startOnce' = [done |-> TRUE, m |-> "free"]
    /\ callers' = [callers EXCEPT ![c].pc = "return"]

\* a command bound to the ctx of the call that launches it
CommandContextOfCaller == "ctx"

\* the context the child's command is bound to: exec.CommandContext is
\* given context.Background()
CommandContext == "Background"

\* Start up to startOnce.Do, with a ctx of the caller's that is not done
\* yet: the fast path of Once.Do reads done
Call(c) ==
    /\ Alive
    /\ callers[c].pc \in {"idle", "returned"}
    /\ callers[c].calls < MaxStarts
    /\ callers' = [callers EXCEPT
                      ![c].pc = IF startOnce.done THEN "return" ELSE "lock",
                      ![c].calls = @ + 1,
                      ![c].waited = startOnce.m # "free",
                      ![c].ctx = FALSE]
    /\ UNCHANGED <<pg, startOnce, postgres, runs, rets>>
    /\ UNCHANGED <<logplexVars, opVars, chunkVars, concVars, stopVars, pingVars>>

\* Start called by any goroutine of the program
StartCall(c) ==
    /\ Call(c)
    /\ UNCHANGED supVars

\* Once.doSlow: the mutex taken, done read again; do() begins with a fresh
\* readyCtx and a fresh router
OnceLock(c) ==
    /\ Alive
    /\ callers[c].pc = "lock"
    /\ OnceUnlocked
    /\ IF startOnce.done
       THEN /\ callers' = [callers EXCEPT ![c].pc = "return"]
            /\ UNCHANGED <<pg, startOnce, runs>>
       ELSE /\ startOnce' = [startOnce EXCEPT !.m = c]
            /\ callers' = [callers EXCEPT ![c].pc = "fetch"]
            /\ pg' = [pg EXCEPT !.readyCtx = "live"]
            /\ runs' = [runs EXCEPT !.do = @ + 1]
    /\ UNCHANGED <<postgres, rets>>
    /\ UNCHANGED <<logplexVars, opVars, chunkVars, concVars, supVars, stopVars, pingVars>>

\* fetch.Binary
DoFetch(c, ok) ==
    /\ Alive
    /\ callers[c].pc = "fetch"
    /\ IF ok
       THEN /\ callers' = [callers EXCEPT ![c].pc = "initdb"]
            /\ UNCHANGED <<pg, startOnce>>
       ELSE Finish(c, "fetch")
    /\ UNCHANGED <<postgres, runs, rets>>
    /\ UNCHANGED <<logplexVars, opVars, chunkVars, concVars, supVars, stopVars, pingVars>>

\* initdb
DoInitdb(c, ok) ==
    /\ Alive
    /\ callers[c].pc = "initdb"
    /\ IF ok
       THEN /\ callers' = [callers EXCEPT ![c].pc = "port"]
            /\ UNCHANGED <<pg, startOnce>>
       ELSE Finish(c, "initdb")
    /\ UNCHANGED <<postgres, runs, rets>>
    /\ UNCHANGED <<logplexVars, opVars, chunkVars, concVars, supVars, stopVars, pingVars>>

\* the port: randomPort panics when it cannot listen; the Once's deferred
\* calls run while the panic unwinds, p.err is never assigned
DoPort(c, ok) ==
    /\ Alive
    /\ callers[c].pc = "port"
    /\ IF ok
       THEN /\ callers' = [callers EXCEPT ![c].pc = "launch"]
            /\ UNCHANGED startOnce
       ELSE /\ callers' = [callers EXCEPT ![c].pc = "panicked"]
            /\ startOnce' = [done |-> TRUE, m |-> "free"]
    /\ UNCHANGED <<pg, postgres, runs, rets>>
    /\ UNCHANGED <<logplexVars, opVars, chunkVars, concVars, supVars, stopVars, pingVars>>

\* cmd.Start: the child is launched; from here on the deferred p.Flush()
\* runs when do() returns
DoLaunch(c, ok) ==
    /\ Alive
    /\ callers[c].pc = "launch"
    /\ IF ok
       THEN /\ callers' = [callers EXCEPT ![c].pc = "open"]
            /\ postgres' = [state |-> "starting", sig |-> FALSE, cause |-> "none"]
            /\ runs' = [runs EXCEPT !.launch = @ + 1]
            /\ pg' = [pg EXCEPT !.launcher = c]
            /\ UNCHANGED startOnce
       ELSE /\ Finish(c, "start")
            /\ UNCHANGED <<postgres, runs>>
    /\ UNCHANGED rets
    /\ UNCHANGED <<logplexVars, opVars, chunkVars, concVars, supVars, stopVars, pingVars>>

\* sql.Open, p.db = db, p.cmd = cmd, p.Flush()
DoOpen(c, ok) ==
    /\ Alive
    /\ callers[c].pc = "open"
    /\ IF ok
       THEN /\ pg' = [pg EXCEPT !.db = "open", !.cmd = "set"]
            /\ callers' = [callers EXCEPT ![c].pc = "ping"]
            /\ UNCHANGED startOnce
       ELSE Finish(c, "open")
    /\ FlushOut
    /\ UNCHANGED <<postgres, runs, rets>>
    /\ UNCHANGED <<opVars, chunkVars, concVars, supVars, stopVars, pingVars>>

\* pingUntilUp to its return: readyCtx is done, or the caller's ctx is
\* done, or a ping is answered (a ping that fails changes nothing)
DoPing(c, how) ==
    /\ Alive
    /\ callers[c].pc = "ping"
    /\ \/ /\ how = "ready"
          /\ pg.readyCtx = "done"
          /\ Finish(c, "nil")
       \/ /\ how = "ctx"
          /\ callers[c].ctx
          /\ Finish(c, "ctx")
       \/ /\ how = "ping"
          /\ ~callers[c].ctx
          /\ pg.readyCtx = "live"
          /\ postgres.state = "up"
          /\ Finish(c, "nil")
    /\ FlushOut
    /\ UNCHANGED <<postgres, runs, rets>>
    /\ UNCHANGED <<opVars, chunkVars, concVars, supVars, stopVars, pingVars>>

\* return p.err
StartReturn(c) ==
    /\ Alive
    /\ callers[c].pc = "return"
    /\ callers' = [callers EXCEPT ![c].pc = "returned", ![c].ret = pg.err]
    /\ rets' = rets \cup {pg.err}
    /\ UNCHANGED <<pg, startOnce, postgres, runs>>
    /\ UNCHANGED <<logplexVars, opVars, chunkVars, concVars, supVars, stopVars, pingVars>>

\* the ctx a caller passed to Start is cancelled or times out; a command
\* bound to that ctx is killed
CtxDone(c) ==
    /\ Alive
    /\ callers[c].calls >= 1
    /\ ~callers[c].ctx
    /\ callers' = [callers EXCEPT ![c].ctx = TRUE]
    /\ postgres' = IF /\ CommandContext = "ctx"
                      /\ pg.launcher = c
                      /\ postgres.state \in {"starting", "up"}
                   THEN [postgres EXCEPT !.state = "exited", !.cause = "ctx"]
                   ELSE postgres
    /\ UNCHANGED <<pg, startOnce, runs, rets>>
    /\ UNCHANGED <<logplexVars, opVars, chunkVars, concVars, supVars, stopVars, pingVars>>

\* the child accepts connections
PostgresUp ==
    /\ postgres.state = "starting"
    /\ postgres' = [postgres EXCEPT !.state = "up"]
    /\ UNCHANGED <<pg, startOnce, callers, runs, rets>>
    /\ UNCHANGED <<logplexVars, opVars, chunkVars, concVars, supVars, stopVars, pingVars>>

\* Split sees the child's line "database system is ready to accept
\* connections" and calls ready()
LogReady ==
    /\ Alive
    /\ postgres.state = "up"
    /\ pg.readyCtx = "live"
    /\ pg' = [pg EXCEPT !.readyCtx = "done"]
    /\ UNCHANGED <<startOnce, callers, postgres, runs, rets>>
    /\ UNCHANGED <<logplexVars, opVars, chunkVars, concVars, supVars, stopVars, pingVars>>

\* the child exits by itself
PostgresCrash ==
    /\ postgres.state \in {"starting", "up"}
    /\ postgres' = [postgres EXCEPT !.state = "exited", !.cause = "crash"]
    /\ UNCHANGED <<pg, startOnce, callers, runs, rets>>
    /\ UNCHANGED <<logplexVars, opVars, chunkVars, concVars, supVars, stopVars, pingVars>>

NextStart ==
    \/ \E c \in Callers : StartCall(c)
    \/ \E c \in Callers : OnceLock(c)
    \/ \E c \in Callers, ok \in BOOLEAN : DoFetch(c, ok)
    \/ \E c \in Callers, ok \in BOOLEAN : DoInitdb(c, ok)
    \/ \E c \in Callers, ok \in BOOLEAN : DoPort(c, ok)
    \/ \E c \in Callers, ok \in BOOLEAN : DoLaunch(c, ok)
    \/ \E c \in Callers, ok \in BOOLEAN : DoOpen(c, ok)
    \/ \E c \in Callers, how \in {"ready", "ctx", "ping"} : DoPing(c, how)
    \/ \E c \in Callers : StartReturn(c)
    \/ \E c \in Callers : CtxDone(c)
    \/ PostgresUp
    \/ LogReady
    \/ PostgresCrash

SpecStart == Init /\ [][NextStart]_vars

\* C5: however often and from however many goroutines Start is called on
\* one instance, do() is entered once and the child is launched at most
\* once; a call that has returned returned p.err as that one run left it,
\* after the run had finished and with no goroutine inside do(); all
\* values ever returned are the same
StartRunsOnce ==
    /\ runs.do <= 1
    /\ runs.launch <= 1
    /\ Cardinality(rets) <= 1
    /\ \A c \in Callers :
          callers[c].pc = "returned" =>
             /\ runs.do = 1
             /\ startOnce.done
             /\ startOnce.m = "free"
             /\ \A d \in Callers : callers[d].pc \notin DoStages
             /\ callers[c].ret = pg.err
             /\ rets = {pg.err}

\* both goroutines have returned the failure of the one run: g2 called
\* while main was inside do() and waited, main called a second time
WitnessConcurrentAndRepeatedStart ==
    /\ callers["main"].pc = "returned"
    /\ callers["main"].calls = 2
    /\ callers["g2"].pc = "returned"
    /\ callers["g2"].waited
    /\ startOnce.m = "free"
    /\ runs.do = 1
    /\ postgres.state = "up"
    /\ rets = {"ctx"}

\* C14: once a call of Start has returned an error, no step enters do()
\* or launches a child again, p.err keeps the recorded error, and every
\* call that returns from then on returns that error
FailedStartIsNotRetried ==
    [][(rets \ {"nil"} # {}) =>
          /\ runs' = runs
          /\ pg'.err = pg.err
          /\ \A c \in Callers :
                /\ callers'[c].pc \notin DoStages
                /\ (callers[c].pc = "return" /\ callers'[c].pc = "returned")
                      => callers'[c].ret \in rets]_vars

\* the child could not be launched; main was told so, called Start again
\* and was told the same, with do() entered once and no child launched
WitnessSecondStartAfterFailure ==
    /\ callers["main"].pc = "returned"
    /\ callers["main"].calls = 2
    /\ callers["main"].ret = "start"
    /\ rets = {"start"}
    /\ runs = [do |-> 1, launch |-> 0]
    /\ postgres.state = "none"

----------------------------------------------------------------------------
(* pqxtest.Start and the watchdog: a second process of the same executable  *)
(* that blocks reading a pipe only the owning program can write to          *)

\* the decimal digits
Digits == <<"0", "1", "2", "3", "4", "5", "6", "7", "8", "9">>

IsDigit(c) == \E i \in 1..10 : Digits[i] = c

DigitValue(c) == (CHOOSE i \in 1..10 : Digits[i] = c) - 1

RECURSIVE ParseDigits(_)
ParseDigits(s) ==
    IF s = <<>> THEN 0
    ELSE ParseDigits(SubSeq(s, 1, Len(s) - 1)) * 10 + DigitValue(s[Len(s)])

\* pid, _ := strconv.Atoi(v): the value of an optional sign and decimal
\* digits, and 0 (with the error dropped) for anything else
Atoi(v) ==
    LET signed == v # <<>> /\ v[1] \in {"+", "-"}
        digits == IF signed THEN Tail(v) ELSE v
    IN  IF digits = <<>> \/ \E i \in 1..Len(digits) : ~IsDigit(digits[i])
        THEN 0
        ELSE IF signed /\ v[1] = "-" THEN 0 - ParseDigits(digits)
        ELSE ParseDigits(digits)

\* strconv.Itoa of a process id
RECURSIVE Itoa(_)
Itoa(n) ==
    IF n < 10 THEN <<Digits[n + 1]>>
    ELSE Itoa(n \div 10) \o <<Digits[(n % 10) + 1]>>

\* a process that never takes the part of the watchdog
NeverSupervisor(v) == FALSE

\* maybeBecomeSupervisor goes on to awaitParentDeath: _PQX_SUP_PID holds a
\* pid that is not 0
IsSupervisor(v) == Atoi(v) # 0

\* the process ids the child may have
Pids == {7, 42}

\* what _PQX_SUP_PID may hold when the executable is started: unset or empty,
\* zero, not a number, a pid
EnvValues ==
    {<<>>, <<"0">>, <<"0", "0">>, <<"x">>, <<"4", "x">>, <<"4", "2">>,
     <<"-", "7">>}

\* a pipe whose write end the watchdog inherits as well
PipeWritersInherited == {"parent", "watchdog"}

\* the processes holding the write end once sup.Start has returned: the
\* end StdinPipe hands out stays in the owning program (close-on-exec)
PipeWriters == {"parent"}

\* the process exits: the kernel closes its descriptors
Exit(how) ==
    /\ parent' = [parent EXCEPT !.pc = "exited", !.how = how]
    /\ pipe' = pipe \ {"parent"}

\* pqxtest.Start up to sharedPG.Start: maybeBecomeSupervisor returns at once
\* unless _PQX_SUP_PID holds a pid, and then the process never gets to
\* sharedPG.Start
PqxtestStart ==
    /\ parent.pc = "init"
    /\ IF IsSupervisor(parent.env)
       THEN /\ parent' = [parent EXCEPT !.pc = "supervisor"]
            /\ UNCHANGED pgVars
            /\ UNCHANGED <<logplexVars, opVars, chunkVars, concVars, stopVars,
                           pingVars>>
       ELSE /\ parent' = [parent EXCEPT !.pc = "Start"]
            /\ Call("main")
    /\ UNCHANGED <<watchdog, pipe>>

\* awaitParentDeath in a process started with a pid in _PQX_SUP_PID: the
\* Read of its standard input returns
SupervisorAwait ==
    /\ parent.pc = "supervisor"
    /\ parent' = [parent EXCEPT !.pc = "signal"]
    /\ UNCHANGED <<watchdog, pipe, pgVars>>
    /\ UNCHANGED <<logplexVars, opVars, chunkVars, concVars, stopVars, pingVars>>

\* FindProcess, Signal(SIGQUIT) and os.Exit(0), or log.Fatalf when there is
\* no such process to signal
SupervisorSignal(ok) ==
    /\ parent.pc = "signal"
    /\ ok => Atoi(parent.env) > 0
    /\ parent' = [parent EXCEPT !.pc = "exited",
                                !.how = IF ok THEN "exit" ELSE "fatal",
                                !.signals = IF ok THEN @ + 1 ELSE @]
    /\ pipe' = pipe \ {"parent"}
    /\ UNCHANGED <<watchdog, pgVars>>
    /\ UNCHANGED <<logplexVars, opVars, chunkVars, concVars, stopVars, pingVars>>

\* sharedPG.Start returned an error: log.Fatalf
StartFailed ==
    /\ parent.pc = "Start"
    /\ callers["main"].pc = "returned"
    /\ callers["main"].ret # "nil"
    /\ Exit("fatal")
    /\ UNCHANGED <<watchdog, pgVars>>
    /\ UNCHANGED <<logplexVars, opVars, chunkVars, concVars, stopVars, pingVars>>

\* the panic of randomPort, which nothing recovers
MainPanicked ==
    /\ Alive
    /\ callers["main"].pc = "panicked"
    /\ Exit("panic")
    /\ UNCHANGED <<watchdog, pgVars>>
    /\ UNCHANGED <<logplexVars, opVars, chunkVars, concVars, stopVars, pingVars>>

\* a pqxtest.Start that goes on whatever sharedPG.Start returned
StartReturnedAny == callers["main"].pc = "returned"

\* pqxtest.Start gets past sharedPG.Start: it returned nil (log.Fatalf
\* otherwise)
StartSucceeded ==
    callers["main"].pc = "returned" /\ callers["main"].ret = "nil"

\* shutThisDownAfterMyDeath(sharedPG.Pid()): StdinPipe, sup.Start, the
\* goroutine that keeps sup referenced; an error of either call panics
SpawnWatchdog(ok) ==
    /\ parent.pc = "Start"
    /\ StartSucceeded
    /\ pg.cmd = "set"
    /\ IF ok
       THEN /\ parent' = [parent EXCEPT !.pc = "running", !.started = TRUE,
                                        !.sup = "referenced"]
            /\ \E pid \in Pids :
                   watchdog' = [watchdog EXCEPT !.pc = "boot", !.env = Itoa(pid)]
            /\ pipe' = PipeWriters
       ELSE /\ Exit("panic")
            /\ UNCHANGED watchdog
    /\ UNCHANGED pgVars
    /\ UNCHANGED <<logplexVars, opVars, chunkVars, concVars, stopVars, pingVars>>

\* supervise.This(pid) in the place of shutThisDownAfterMyDeath: the same
\* StdinPipe and sup.Start, but sup is referenced by nothing once This has
\* returned
SuperviseThis(ok) ==
    /\ parent.pc = "Start"
    /\ StartSucceeded
    /\ pg.cmd = "set"
    /\ IF ok
       THEN /\ parent' = [parent EXCEPT !.pc = "running", !.started = TRUE,
                                        !.sup = "unreferenced"]
            /\ \E pid \in Pids :
                   watchdog' = [watchdog EXCEPT !.pc = "boot", !.env = Itoa(pid)]
            /\ pipe' = PipeWriters
       ELSE /\ Exit("panic")
            /\ UNCHANGED watchdog
    /\ UNCHANGED pgVars
    /\ UNCHANGED <<logplexVars, opVars, chunkVars, concVars, stopVars, pingVars>>

\* the garbage collector finds sup unreferenced: the finalizer of the
\* pipe's write end closes it
CollectSup ==
    /\ Alive
    /\ parent.sup = "unreferenced"
    /\ parent' = [parent EXCEPT !.sup = "collected"]
    /\ pipe' = pipe \ {"parent"}
    /\ UNCHANGED <<watchdog, pgVars>>
    /\ UNCHANGED <<logplexVars, opVars, chunkVars, concVars, stopVars, pingVars>>

\* the rest of pqxtest.TestMain: m.Run returns, Shutdown (ShutdownAlone:
\* p.db.Close() and nothing else), os.Exit
TestMainExit ==
    /\ parent.pc = "running"
    /\ pg' = [pg EXCEPT !.db = "closed"]
    /\ Exit("exit")
    /\ UNCHANGED <<watchdog, startOnce, callers, postgres, runs, rets>>
    /\ UNCHANGED <<logplexVars, opVars, chunkVars, concVars, stopVars, pingVars>>

\* the owning program panics or is killed, wherever it is
ParentDies(how) ==
    /\ Alive
    /\ Exit(how)
    /\ UNCHANGED <<watchdog, pgVars>>
    /\ UNCHANGED <<logplexVars, opVars, chunkVars, concVars, stopVars, pingVars>>

\* the watchdog runs the executable up to maybeBecomeSupervisor, where
\* _PQX_SUP_PID is read, and calls awaitParentDeath; with no pid there it
\* would go on as the primary program does
WatchdogBoot ==
    /\ watchdog.pc = "boot"
    /\ watchdog' = [watchdog EXCEPT !.pc = IF IsSupervisor(watchdog.env)
                                          THEN "reading" ELSE "primary"]
    /\ UNCHANGED <<parent, pipe, pgVars>>
    /\ UNCHANGED <<logplexVars, opVars, chunkVars, concVars, stopVars, pingVars>>

\* os.Stdin.Read returns: nobody writes, so only when no process holds
\* the write end any more
WatchdogRead ==
    /\ watchdog.pc = "reading"
    /\ pipe = {}
    /\ watchdog' = [watchdog EXCEPT !.pc = "signal"]
    /\ UNCHANGED <<parent, pipe, pgVars>>
    /\ UNCHANGED <<logplexVars, opVars, chunkVars, concVars, stopVars, pingVars>>

\* FindProcess, Signal(SIGQUIT), os.Exit(0); Signal fails (log.Fatalf) when
\* the child has exited and has been reaped
WatchdogSignal(reaped) ==
    /\ watchdog.pc = "signal"
    /\ IF postgres.state \in {"starting", "up"}
       THEN /\ postgres' = [postgres EXCEPT !.sig = TRUE]
            /\ watchdog' = [watchdog EXCEPT !.pc = "exited", !.code = 0,
                                            !.signaled = TRUE,
                                            !.signals = @ + 1]
       ELSE /\ postgres' = postgres
            /\ watchdog' = IF reaped
                           THEN [watchdog EXCEPT !.pc = "exited", !.code = 1,
                                                 !.signaled = FALSE]
                           ELSE [watchdog EXCEPT !.pc = "exited", !.code = 0,
                                                 !.signaled = TRUE,
                                                 !.signals = @ + 1]
    /\ UNCHANGED <<parent, pipe, pg, startOnce, callers, runs, rets>>
    /\ UNCHANGED <<logplexVars, opVars, chunkVars, concVars, stopVars, pingVars>>

\* the child takes SIGQUIT and exits
PostgresQuit ==
    /\ postgres.sig
    /\ postgres.state \in {"starting", "up"}
    /\ postgres' = [postgres EXCEPT !.state = "exited", !.cause = "quit"]
    /\ UNCHANGED <<pg, startOnce, callers, runs, rets>>
    /\ UNCHANGED <<logplexVars, opVars, chunkVars, concVars, supVars, stopVars, pingVars>>

NextSup ==
    \/ PqxtestStart
    \/ \E c \in Callers : OnceLock(c)
    \/ \E c \in Callers, ok \in BOOLEAN : DoFetch(c, ok)
    \/ \E c \in Callers, ok \in BOOLEAN : DoInitdb(c, ok)
    \/ \E c \in Callers, ok \in BOOLEAN : DoPort(c, ok)
    \/ \E c \in Callers, ok \in BOOLEAN : DoLaunch(c, ok)
    \/ \E c \in Callers, ok \in BOOLEAN : DoOpen(c, ok)
    \/ \E c \in Callers, how \in {"ready", "ctx", "ping"} : DoPing(c, how)
    \/ \E c \in Callers : StartReturn(c)
    \/ \E c \in Callers : CtxDone(c)
    \/ PostgresUp
    \/ LogReady
    \/ PostgresCrash
    \/ StartFailed
    \/ MainPanicked
    \/ \E ok \in BOOLEAN : SpawnWatchdog(ok)
    \/ \E ok \in BOOLEAN : SuperviseThis(ok)
    \/ CollectSup
    \/ TestMainExit
    \/ \E how \in {"panic", "killed"} : ParentDies(how)
    \/ WatchdogBoot
    \/ WatchdogRead
    \/ \E reaped \in BOOLEAN : WatchdogSignal(reaped)
    \/ PostgresQuit

SpecSup == Init /\ [][NextSup]_vars

\* the watchdog and the child are processes of their own: each takes its
\* next step whatever becomes of the owning program
SpecSupFair ==
    /\ SpecSup
    /\ WF_vars(WatchdogBoot)
    /\ WF_vars(WatchdogRead)
    /\ WF_vars(\E reaped \in BOOLEAN : WatchdogSignal(reaped))
    /\ WF_vars(PostgresQuit)

\* C4: once pqxtest.Start has succeeded and the owning program has exited
\* (panic, kill, or the normal end of TestMain, none of which terminates
\* the child), the watchdog's read returns, the watchdog signals the child
\* and exits, and the child is no longer alive; the watchdog exits without
\* its signal delivered only when the child had already exited by itself
OrphanIsTerminated ==
    (parent.started /\ parent.pc = "exited")
        ~> /\ watchdog.pc = "exited"
           /\ postgres.state = "exited"
           /\ watchdog.signaled \/ postgres.cause = "crash"

\* C20: the watchdog's read has returned (it is about to signal, or has
\* exited) only when the owning program has exited
WatchdogWakesOnlyOnParentExit ==
    watchdog.pc \in {"signal", "exited"} => parent.pc = "exited"

\* the owning program panicked after Start; the watchdog signaled the
\* child, which then exited on that signal
WitnessOrphanTerminated ==
    /\ parent.started
    /\ parent.pc = "exited"
    /\ parent.how = "panic"
    /\ watchdog.pc = "exited"
    /\ watchdog.code = 0
    /\ watchdog.signaled
    /\ postgres = [state |-> "exited", sig |-> TRUE, cause |-> "quit"]

----------------------------------------------------------------------------
(* Shutdown, ShutdownAlone, CreateDB and its cleanup, called by the owning  *)
(* program once no call of Start is inside do()                             *)

\* calls of Shutdown and ShutdownAlone made at most
MaxStops == 2

\* calls of BackOff
MaxBackoffs == 4

\* pings of one pingUntilUp
MaxPings == 3

\* a shutdown that signals and waits whatever alone says
NeverAlone(alone) == FALSE

\* the test of shutdown's parameter after p.db.Close()
IsAlone(alone) == alone

\* a Wait that returns without the child having exited
ChildGoneOrNot == TRUE

\* cmd.Wait returns once the child has exited
ChildGone == postgres.state = "exited"

\* the databases whose DROP DATABASE is in flight (the goroutines of dropg)
Dropping == {k \in DOMAIN dbs : dbs[k] = "dropping"}

\* shutdown(alone) up to the Signal: p.db.Close(), which dereferences p.db,
\* and the return of nil when alone
ShutdownCall(alone) ==
    /\ Alive
    /\ stop.pc \in {"idle", "returned"}
    /\ stop.calls < MaxStops
    /\ \A c \in Callers : callers[c].pc \notin DoStages
    /\ LET begun == [pc |-> "signal", alone |-> alone, ret |-> "nil",
                     calls |-> stop.calls + 1, signaled |-> FALSE,
                     waited |-> FALSE, dropping |-> {}, code |-> 0,
                     child |-> postgres]
       IN  IF pg.db = "nil"
           THEN /\ stop' = [begun EXCEPT !.pc = "panicked"]
                /\ pg' = pg
           ELSE /\ pg' = [pg EXCEPT !.db = "closed"]
                /\ stop' = IF IsAlone(alone)
                           THEN [begun EXCEPT !.pc = "returned"]
                           ELSE begun
    /\ UNCHANGED <<startOnce, callers, postgres, runs, rets, dbs>>
    /\ UNCHANGED <<logplexVars, opVars, chunkVars, concVars, supVars, pingVars>>

\* p.cmd.Process.Signal(SIGQUIT): an error when the process was waited on
\* before, or when the system refuses the signal (ok is FALSE)
ShutdownSignal(ok) ==
    /\ Alive
    /\ stop.pc = "signal"
    /\ IF pg.cmd = "waited" \/ ~ok
       THEN /\ stop' = [stop EXCEPT !.pc = "returned", !.ret = "signal"]
            /\ postgres' = postgres
       ELSE /\ stop' = [stop EXCEPT !.pc = "wait", !.signaled = TRUE,
                                    !.dropping = Dropping]
            /\ postgres' = IF postgres.state \in {"starting", "up"}
                           THEN [postgres EXCEPT !.sig = TRUE]
                           ELSE postgres
    /\ UNCHANGED <<pg, startOnce, callers, runs, rets, dbs>>
    /\ UNCHANGED <<logplexVars, opVars, chunkVars, concVars, supVars, pingVars>>

\* p.cmd.Wait(): returns when the child has exited, with an error unless
\* its exit code is 0
ShutdownWait(code) ==
    /\ Alive
    /\ stop.pc = "wait"
    /\ ChildGone
    /\ pg' = [pg EXCEPT !.cmd = IF postgres.state = "exited" THEN "waited" ELSE @]
    /\ stop' = [stop EXCEPT !.pc = "returned",
                            !.waited = postgres.state = "exited",
                            !.code = code,
                            !.ret = IF code = 0 THEN "nil" ELSE "exit"]
    /\ UNCHANGED <<startOnce, callers, postgres, runs, rets, dbs>>
    /\ UNCHANGED <<logplexVars, opVars, chunkVars, concVars, supVars, pingVars>>

\* the writer CreateDB registers for a database: LogfWriter(logf)
LogfOf(name) == IF name = <<"a">> THEN "w1" ELSE "w2"

\* CreateDB, once for each name, after a Start that succeeded (p.Start
\* returns p.err at once):
\* Watch(name), CREATE DATABASE, the connection; p.Flush() once more when
\* the statement fails, and the deferred p.Flush()
CreateDB(name, ok) ==
    /\ Alive
    /\ startOnce.done
    /\ pg.err = "nil"
    /\ pg.db # "nil"
    /\ name \notin DOMAIN dbs
    /\ \A c \in Callers : callers[c].pc \notin DoStages
    /\ LET watched == [LP EXCEPT !.sinks =
                          [k \in DOMAIN sinks \cup {name} |->
                              IF k = name THEN LogfOf(name) ELSE sinks[k]]]
           made == ok /\ pg.db = "open" /\ postgres.state = "up"
           once == flushLocked(watched, FALSE).lp
       IN  /\ Install(IF made THEN once ELSE flushLocked(once, FALSE).lp)
           /\ dbs' = [k \in DOMAIN dbs \cup {name} |->
                        IF k # name THEN dbs[k]
                        ELSE IF made THEN "open" ELSE "failed"]
    /\ UNCHANGED <<pgVars, stop>>
    /\ UNCHANGED <<opVars, chunkVars, concVars, supVars, pingVars>>

\* the cleanup CreateDB returned: db.Close(), dropDB (a goroutine of dropg
\* that runs DROP DATABASE), p.Flush(), Unwatch(name)
Cleanup(name) ==
    /\ Alive
    /\ name \in DOMAIN dbs
    /\ dbs[name] = "open"
    /\ dbs' = [dbs EXCEPT ![name] = "dropping"]
    /\ LET flushed == flushLocked(LP, FALSE).lp
       IN  Install([flushed EXCEPT !.sinks =
                       [k \in DOMAIN sinks \ {name} |-> sinks[k]]])
    /\ UNCHANGED <<pgVars, stop>>
    /\ UNCHANGED <<opVars, chunkVars, concVars, supVars, pingVars>>

\* the goroutine of dropDB: ExecContext returns
DropDone(name) ==
    /\ Alive
    /\ name \in DOMAIN dbs
    /\ dbs[name] = "dropping"
    /\ dbs' = [dbs EXCEPT ![name] = "dropped"]
    /\ UNCHANGED <<pgVars, stop>>
    /\ UNCHANGED <<logplexVars, opVars, chunkVars, concVars, supVars, pingVars>>

\* the databases tests create
DBNames == Keys

NextStop ==
    \/ StartCall("main")
    \/ \E c \in Callers : OnceLock(c)
    \/ \E c \in Callers, ok \in BOOLEAN : DoFetch(c, ok)
    \/ \E c \in Callers, ok \in BOOLEAN : DoInitdb(c, ok)
    \/ \E c \in Callers, ok \in BOOLEAN : DoPort(c, ok)
    \/ \E c \in Callers, ok \in BOOLEAN : DoLaunch(c, ok)
    \/ \E c \in Callers, ok \in BOOLEAN : DoOpen(c, ok)
    \/ \E c \in Callers, how \in {"ready", "ctx", "ping"} : DoPing(c, how)
    \/ \E c \in Callers : StartReturn(c)
    \/ \E c \in Callers : CtxDone(c)
    \/ PostgresUp
    \/ LogReady
    \/ PostgresCrash
    \/ PostgresQuit
    \/ \E alone \in BOOLEAN : ShutdownCall(alone)
    \/ \E ok \in BOOLEAN : ShutdownSignal(ok)
    \/ \E code \in {0, 2} : ShutdownWait(code)
    \/ \E name \in DBNames, ok \in BOOLEAN : CreateDB(name, ok)
    \/ \E name \in DBNames : Cleanup(name)
    \/ \E name \in DBNames : DropDone(name)

SpecStop == Init /\ [][NextStop]_vars

\* C15: a step in which the ctx passed to Start becomes done leaves the
\* child as it is, whether Start is still waiting or has returned; the
\* child is signaled only by shutdown or by the watchdog, and it exits
\* only by itself or on that signal
CtxNeverTerminatesChild ==
    [][/\ (\E c \in Callers : callers'[c].ctx /\ ~callers[c].ctx)
            => postgres' = postgres
       /\ (postgres'.sig /\ ~postgres.sig)
            => (stop.pc = "signal" \/ watchdog.pc = "signal")
       /\ (postgres'.state = "exited" /\ postgres.state # "exited")
            => \/ postgres'.cause = "crash"
               \/ postgres'.cause = "quit" /\ postgres.sig]_vars

\* Start gave up on the ctx, which was done while the child was starting;
\* the child runs on and accepts connections
WitnessChildOutlivesCtx ==
    /\ callers["main"].pc = "returned"
    /\ callers["main"].ret = "ctx"
    /\ callers["main"].ctx
    /\ postgres = [state |-> "up", sig |-> FALSE, cause |-> "none"]

\* C16: a Shutdown that delivered the signal returns only after cmd.Wait
\* has returned, the child having exited and been reaped; it returns an
\* error when the exit code is not 0 and nil when it is
SignaledChildIsReaped ==
    /\ stop.signaled => stop.pc \in {"wait", "returned"}
    /\ (stop.signaled /\ stop.pc = "returned") =>
          /\ stop.waited
          /\ postgres.state = "exited"
          /\ pg.cmd = "waited"
          /\ stop.ret = (IF stop.code = 0 THEN "nil" ELSE "exit")

\* Shutdown signaled the running child, waited for it and returned the
\* error of its exit code 2
WitnessShutdownReaps ==
    /\ stop.pc = "returned"
    /\ ~stop.alone
    /\ stop.signaled
    /\ stop.child.state = "up"
    /\ stop.ret = "exit"
    /\ stop.code = 2
    /\ postgres.cause = "quit"
    /\ pg.cmd = "waited"

\* C17: a Shutdown that returns the error of a Signal that could not be
\* delivered has waited on the child before
FailedSignalStillReaps ==
    (stop.pc = "returned" /\ stop.ret = "signal") => pg.cmd = "waited"

\* C18: ShutdownAlone is over in the one step that closes p.db: that step
\* leaves the child as it is; it never reaches Signal or Wait, and when it
\* returns it returns nil with p.db closed
ShutdownAloneLeavesChild ==
    /\ [][(stop'.calls # stop.calls /\ stop'.alone) => postgres' = postgres]_vars
    /\ [](stop.alone =>
             /\ stop.pc \in {"returned", "panicked"}
             /\ ~stop.signaled
             /\ ~stop.waited
             /\ stop.pc = "returned" => (stop.ret = "nil" /\ pg.db = "closed"))

\* ShutdownAlone has returned nil; the child still accepts connections,
\* unsignaled
WitnessAloneLeavesChildRunning ==
    /\ stop.alone
    /\ stop.pc = "returned"
    /\ stop.ret = "nil"
    /\ pg.db = "closed"
    /\ pg.cmd = "set"
    /\ postgres = [state |-> "up", sig |-> FALSE, cause |-> "none"]

\* C19: when Shutdown signals the child no DROP DATABASE started by a
\* cleanup is still in flight
ShutdownAwaitsDrops ==
    stop.signaled => stop.dropping = {}

\* C21: the writer of a database is registered from before its CREATE
\* DATABASE until the DROP DATABASE of its cleanup has completed: while the
\* database is connected or being dropped, its name is a key of sinks
SinkRegisteredUntilDropped ==
    \A k \in DOMAIN dbs : dbs[k] \in {"open", "dropping"} => k \in DOMAIN sinks

-----------------------------------------------------------------------------
\* Backoff (package backoff): consecutive failures and the interruptible wait.
\* Durations are in milliseconds.

\* the limits a Backoff is made with: one that caps the second failure's
\* delay and the one pingUntilUp uses
Limits == {20, 1000}

\* rand.Float64() + 0.5 lies in [0.5, 1.5): the factor in percent
Jitter == {50, 100, 149}

\* b.n after a call with a nil error, whatever the streak was
KeepStreak(n) == n

AfterSuccess(n) == 0

\* a delay that grows without a limit
DelayUncapped(n, maxBackoff) == n * n * 10

\* d := time.Duration(b.n*b.n) * 10 * time.Millisecond, capped at maxBackoff
Delay(n, maxBackoff) ==
    IF n * n * 10 > maxBackoff THEN maxBackoff ELSE n * n * 10

\* the select of BackOff has its ctx.Done() case ready
NeverInterrupted(b) == FALSE

Interrupted(b) == b.ctx

\* BackOff(ctx, err) up to its select: b is the Backoff, pct the jitter drawn
BackOffEnter(b, err, pct) ==
    LET called == [b EXCEPT !.prev = b.err, !.err = err, !.calls = b.calls + 1,
                            !.d = 0, !.sleep = 0, !.timer = "none"]
    IN  IF err = "nil"
        THEN [called EXCEPT !.n = AfterSuccess(b.n), !.woke = "reset"]
        ELSE IF b.ctx
        THEN [called EXCEPT !.woke = "fast"]
        ELSE LET d == Delay(b.n + 1, b.maxBackoff)
             IN  [called EXCEPT !.n = b.n + 1, !.d = d,
                                !.sleep = (d * pct) \div 100,
                                !.logs = b.logs + 1,
                                !.timer = "running", !.woke = "none",
                                !.pc = "sleeping"]

\* a caller calls b.BackOff(ctx, err)
BackOffCall(err) ==
    /\ bo.pc = "idle"
    /\ bo.calls < MaxBackoffs
    /\ \E pct \in Jitter : bo' = BackOffEnter(bo, err, pct)
    /\ UNCHANGED <<logplexVars, opVars, chunkVars, concVars, pgVars, supVars,
                   stopVars, poll>>

\* the delay has passed: t.C is ready
TimerFires ==
    /\ bo.pc = "sleeping"
    /\ bo.timer = "running"
    /\ bo' = [bo EXCEPT !.timer = "fired"]
    /\ UNCHANGED <<logplexVars, opVars, chunkVars, concVars, pgVars, supVars,
                   stopVars, poll>>

\* case <-t.C:
BackOffTimer ==
    /\ bo.pc = "sleeping"
    /\ bo.timer = "fired"
    /\ bo' = [bo EXCEPT !.pc = "idle", !.woke = "timer"]
    /\ UNCHANGED <<logplexVars, opVars, chunkVars, concVars, pgVars, supVars,
                   stopVars, poll>>

\* case <-ctx.Done(): t.Stop()
BackOffInterrupted ==
    /\ bo.pc = "sleeping"
    /\ Interrupted(bo)
    /\ bo' = [bo EXCEPT !.pc = "idle", !.woke = "ctx",
                        !.timer = IF bo.timer = "running" THEN "stopped"
                                  ELSE bo.timer]
    /\ UNCHANGED <<logplexVars, opVars, chunkVars, concVars, pgVars, supVars,
                   stopVars, poll>>

\* the context given to BackOff is cancelled
BackOffCtxDone ==
    /\ ~bo.ctx
    /\ bo' = [bo EXCEPT !.ctx = TRUE]
    /\ UNCHANGED <<logplexVars, opVars, chunkVars, concVars, pgVars, supVars,
                   stopVars, poll>>

InitBackoff ==
    /\ InitLogplex
    /\ NoStream
    /\ NoGoroutines
    /\ NotStarted
    /\ NoWatchdog
    /\ NotStopped
    /\ \E maxBackoff \in Limits : bo = NewBackoff(maxBackoff)
    /\ poll = [pc |-> "idle", ctx |-> FALSE, up |-> FALSE, ret |-> "none",
               pings |-> 0, okAt |-> 0, err |-> "none", readyAt |-> "none"]

NextBackoff ==
    \/ \E err \in {"nil", "err"} : BackOffCall(err)
    \/ TimerFires
    \/ BackOffTimer
    \/ BackOffInterrupted
    \/ BackOffCtxDone

SpecBackoff == InitBackoff /\ [][NextBackoff]_vars

\* a goroutine whose select has a ready case runs; how long the delay takes
\* to pass is not assumed
SpecBackoffFair ==
    SpecBackoff /\ WF_vars(BackOffTimer) /\ WF_vars(BackOffInterrupted)

\* the last call of BackOff computed a delay
Computed == bo.pc = "sleeping" \/ bo.woke \in {"timer", "ctx"}

\* C22: after a call of BackOff with a nil error the count of consecutive
\* failures is zero, and a failure that follows it waits the delay of a first
\* failure (before jitter), whatever the streak before the success was.
SuccessResetsStreak ==
    /\ (bo.err = "nil" => bo.n = 0)
    /\ (bo.prev = "nil" /\ bo.err = "err" /\ Computed
            => bo.n = 1 /\ bo.d = Delay(1, bo.maxBackoff))

\* a failure after a success after a streak of two failures
WitnessFailureAfterReset ==
    /\ bo.calls = 4
    /\ bo.prev = "nil"
    /\ bo.err = "err"
    /\ Computed
    /\ bo.logs = 3
    /\ bo.d < Delay(2, bo.maxBackoff)

\* C23: when the context given to BackOff is cancelled while BackOff sleeps,
\* BackOff returns, whether or not the delay has passed.
CancelledSleepReturns ==
    (bo.pc = "sleeping" /\ bo.ctx) ~> (bo.pc = "idle")

\* BackOff returned on ctx.Done() with the timer stopped before it fired
WitnessWokeBeforeTimer ==
    /\ bo.pc = "idle"
    /\ bo.woke = "ctx"
    /\ bo.timer = "stopped"
    /\ bo.sleep > 0

-----------------------------------------------------------------------------
\* pingUntilUp: the readiness loop of Start.  The context it gives to BackOff
\* is p.readyCtx, so bo.ctx is "the ready signal has fired"; poll.ctx is the
\* context of the caller of Start.

\* what the loop does with the error of a ping
AlwaysBackOff(err) == "backoff"

OnPing(err) == IF err = "nil" THEN "return" ELSE "backoff"

\* what the loop returns when its select takes <-ctx.Done()
SelectLastErr(err) == err

SelectCtx(err) == "ctx"

\* pingUntilUp is entered: b := backoff.NewBackoff("ping", logf, 1*time.Second)
InitPing ==
    /\ InitLogplex
    /\ NoStream
    /\ NoGoroutines
    /\ NotStarted
    /\ NoWatchdog
    /\ NotStopped
    /\ bo = NewBackoff(1000)
    /\ poll = [pc |-> "select", ctx |-> FALSE, up |-> FALSE, ret |-> "none",
               pings |-> 0, okAt |-> 0, err |-> "none", readyAt |-> "none"]

\* the select at the top of the loop; with both contexts done either case
\* may be taken
PollSelect(how) ==
    /\ poll.pc = "select"
    /\ \/ /\ how = "ready"
          /\ bo.ctx
          /\ poll' = [poll EXCEPT !.pc = "returned", !.ret = "nil"]
       \/ /\ how = "ctx"
          /\ poll.ctx
          /\ poll' = [poll EXCEPT !.pc = "returned",
                                  !.ret = SelectCtx(poll.err)]
       \/ /\ how = "default"
          /\ ~bo.ctx
          /\ ~poll.ctx
          /\ poll.pings < MaxPings
          /\ poll' = [poll EXCEPT !.pc = "ping"]
    /\ UNCHANGED <<logplexVars, opVars, chunkVars, concVars, pgVars, supVars,
                   stopVars, bo>>

\* err := p.db.PingContext(ctx), then return nil, or logf and b.BackOff
PollPing(ok) ==
    /\ poll.pc = "ping"
    /\ ok => poll.up
    /\ LET err == IF ok THEN "nil" ELSE "ping"
           pinged == [poll EXCEPT !.pings = poll.pings + 1, !.err = err,
                                  !.okAt = IF ok THEN poll.pings + 1
                                           ELSE poll.okAt]
       IN  IF OnPing(err) = "return"
           THEN /\ poll' = [pinged EXCEPT !.pc = "returned", !.ret = "nil"]
                /\ bo' = bo
           ELSE /\ \E pct \in Jitter : bo' = BackOffEnter(bo, err, pct)
                /\ poll' = [pinged EXCEPT !.pc = "backoff"]
    /\ UNCHANGED <<logplexVars, opVars, chunkVars, concVars, pgVars, supVars,
                   stopVars>>

\* BackOff has returned: around the loop
PollLoop ==
    /\ poll.pc = "backoff"
    /\ bo.pc = "idle"
    /\ poll' = [poll EXCEPT !.pc = "select"]
    /\ UNCHANGED <<logplexVars, opVars, chunkVars, concVars, pgVars, supVars,
                   stopVars, bo>>

\* the Split closure sees the ready line of the child and calls ready()
Ready ==
    /\ ~bo.ctx
    /\ bo' = [bo EXCEPT !.ctx = TRUE]
    /\ poll' = [poll EXCEPT !.readyAt = IF bo.pc = "sleeping"
                                        THEN "sleeping" ELSE poll.pc]
    /\ UNCHANGED <<logplexVars, opVars, chunkVars, concVars, pgVars, supVars,
                   stopVars>>

\* the context of the caller of Start is cancelled or its deadline passes
PollCtxDone ==
    /\ ~poll.ctx
    /\ poll' = [poll EXCEPT !.ctx = TRUE]
    /\ UNCHANGED <<logplexVars, opVars, chunkVars, concVars, pgVars, supVars,
                   stopVars, bo>>

\* the server begins to answer pings
PollUp ==
    /\ ~poll.up
    /\ poll' = [poll EXCEPT !.up = TRUE]
    /\ UNCHANGED <<logplexVars, opVars, chunkVars, concVars, pgVars, supVars,
                   stopVars, bo>>

NextPing ==
    \/ \E how \in {"ready", "ctx", "default"} : PollSelect(how)
    \/ \E ok \in BOOLEAN : PollPing(ok)
    \/ PollLoop
    \/ Ready
    \/ PollCtxDone
    \/ PollUp
    \/ TimerFires
    \/ BackOffTimer
    \/ BackOffInterrupted

SpecPing == InitPing /\ [][NextPing]_vars

\* the goroutine of pingUntilUp runs while it can, and time passes
SpecPingFair ==
    /\ SpecPing
    /\ WF_vars(\E how \in {"ready", "ctx"} : PollSelect(how))
    /\ WF_vars(\E ok \in BOOLEAN : PollPing(ok))
    /\ WF_vars(PollLoop)
    /\ WF_vars(TimerFires)
    /\ WF_vars(BackOffTimer)
    /\ WF_vars(BackOffInterrupted)

\* C24: the first ping that succeeds ends pingUntilUp: it has returned nil,
\* no ping was made after that one, and BackOff was called once for each
\* failed ping before it and not after it.
SuccessStopsLoop ==
    poll.okAt > 0 =>
        /\ poll.pc = "returned"
        /\ poll.ret = "nil"
        /\ poll.pings = poll.okAt
        /\ bo.calls = poll.okAt - 1
        /\ bo.pc = "idle"

\* a ping succeeded after two that failed
WitnessThirdPingSucceeds ==
    /\ poll.okAt = 3
    /\ poll.pc = "returned"
    /\ bo.n = 2

\* C25: when the ready line is seen while pingUntilUp waits in BackOff after
\* a failed ping, pingUntilUp returns nil.
ReadyDuringBackoffSucceeds ==
    poll.readyAt = "sleeping" /\ poll.pc = "returned" => poll.ret = "nil"

\* C26: pingUntilUp never returns the error of a ping; once the context of
\* the caller is done it returns, and it returns the error of the context
\* unless the ready line was seen or a ping was answered.
CancelEndsLoopWithCtxErr ==
    /\ [](poll.ret \in {"none", "nil", "ctx"})
    /\ [](poll.pc = "returned" /\ ~bo.ctx /\ ~poll.up => poll.ret = "ctx")
    /\ (poll.ctx ~> poll.pc = "returned")

\* the context error returned after a failed ping, the service never ready
WitnessCtxErrAfterFailedPing ==
    /\ poll.pc = "returned"
    /\ poll.ret = "ctx"
    /\ poll.err = "ping"
    /\ ~bo.ctx
    /\ ~poll.up
    /\ bo.woke = "timer"

-----------------------------------------------------------------------------
\* The executable started with any value of _PQX_SUP_PID: which part it takes.

InitRole ==
    /\ InitLogplex
    /\ NoStream
    /\ NoGoroutines
    /\ NotStarted
    /\ NotStopped
    /\ NotPolling
    /\ \E v \in EnvValues :
           parent = [pc |-> "init", started |-> FALSE, how |-> "none",
                     sup |-> "none", env |-> v, signals |-> 0]
    /\ watchdog = [pc |-> "none", code |-> 0, signaled |-> FALSE, env |-> <<>>,
                   signals |-> 0]
    /\ pipe = {}

NextRole ==
    \/ NextSup
    \/ SupervisorAwait
    \/ \E ok \in BOOLEAN : SupervisorSignal(ok)

SpecRole == InitRole /\ [][NextRole]_vars

\* the process has done nothing but what maybeBecomeSupervisor does
OnlyWatchdog(proc, own) ==
    /\ proc.pc \in {"none", "init", "boot", "supervisor", "reading", "signal",
                    "exited"}
    /\ proc.signals <= 1
    /\ proc.signals = 1 => proc.pc = "exited"
    /\ own => /\ callers["main"].calls = 0
              /\ runs = [do |-> 0, launch |-> 0]
              /\ postgres.state = "none"
              /\ watchdog.pc = "none"

\* C27: a process whose _PQX_SUP_PID holds a pid other than 0 only waits,
\* signals that pid at most once and exits: it calls Start never, launches no
\* child and no watchdog.  A process whose _PQX_SUP_PID is unset, 0 or not
\* a number goes on to sharedPG.Start and signals nothing.
RoleFollowsEnv ==
    /\ IF Atoi(parent.env) # 0
       THEN OnlyWatchdog(parent, TRUE)
       ELSE /\ parent.pc \notin {"supervisor", "signal"}
            /\ parent.signals = 0
            /\ parent.pc \in {"Start", "running"} => callers["main"].calls >= 1
    /\ watchdog.pc # "none" =>
           /\ Atoi(watchdog.env) \in Pids
           /\ OnlyWatchdog(watchdog, FALSE)

\* a process started with a pid has signalled it and exited, having started
\* nothing
WitnessStartedAsWatchdog ==
    /\ parent.env = <<"4", "2">>
    /\ parent.pc = "exited"
    /\ parent.how = "exit"
    /\ parent.signals = 1
    /\ runs.launch = 0

-----------------------------------------------------------------------------
\* The last-seen key of the router.

\* C28: lastSeen is changed by nothing but the routing of a keyed line: a
\* Write all of whose lines are unattributed, a Watch and an Unwatch leave
\* it as it was.
LastSeenOnlyByKeyedLines ==
    /\ last.kind \in {"Watch", "Unwatch"} => lastSeen = last.seen0
    /\ (/\ last.kind = "Write"
        /\ ~last.err
        /\ \A i \in 1..Len(WLines) : ~HasSep(WLines[i]))
           => lastSeen = last.seen0

-----------------------------------------------------------------------------
\* The mutex and the sinks.

\* C29: no goroutine calls a sink's Write while it holds the mutex of the
\* router, so that a Watch, an Unwatch or a Flush by another goroutine can
\* take the mutex while the sink's Write is in progress.
SinkWriteOutsideMutex ==
    [][\A g \in Goroutines :
           gs'[g] # gs[g] /\ Len(out') > Len(out) => mu # g]_vars

-----------------------------------------------------------------------------
\* The life of a Postgres value, read off its fields.

\* the state of the instance: a shutdown in progress or returned, then what
\* startOnce and p.err say
State ==
    IF stop.pc = "panicked" THEN "Panicked"
    ELSE IF stop.pc \in {"signal", "wait"} THEN "ShuttingDown"
    ELSE IF stop.pc = "returned" THEN "Stopped"
    ELSE IF startOnce.done THEN (IF pg.err = "nil" THEN "Running" ELSE "Failed")
    ELSE IF runs.do > 0 THEN "Starting"
    ELSE "NotStarted"

\* the transitions of the instance; ShutdownAlone goes from Running to
\* Stopped in one step
Transitions ==
    { <<"NotStarted", "Starting">>, <<"Starting", "Running">>,
      <<"Starting", "Failed">>, <<"Running", "ShuttingDown">>,
      <<"ShuttingDown", "Stopped">>, <<"Running", "Stopped">> }

\* C30: the instance moves only from NotStarted to Starting, from Starting to
\* Running or to Failed, from Running to ShuttingDown and from there to
\* Stopped; nothing leaves Failed or Stopped.
OnlyClaimedTransitions ==
    [][State' # State => <<State, State'>> \in Transitions]_vars

-----------------------------------------------------------------------------
\* The delays of Backoff.

\* C31: on the n-th failure in a row the delay before jitter is the smaller of
\* maxBackoff and 10ms * n * n: no smaller than the delay of any earlier
\* failure of the streak and never above maxBackoff; the sleep is at least
\* half of it and below one and a half times it, so at most 1.5 * maxBackoff.
DelayIsCappedSquare ==
    Computed =>
        /\ bo.n >= 1
        /\ bo.d = IF 10 * bo.n * bo.n < bo.maxBackoff
                  THEN 10 * bo.n * bo.n ELSE bo.maxBackoff
        /\ bo.d <= bo.maxBackoff
        /\ \A m \in 1..bo.n :
               (IF 10 * m * m < bo.maxBackoff
                THEN 10 * m * m ELSE bo.maxBackoff) <= bo.d
        /\ 2 * bo.sleep >= bo.d
        /\ 2 * bo.sleep < 3 * bo.d
        /\ 2 * bo.sleep <= 3 * bo.maxBackoff

\* a third failure in a row whose delay is the limit and whose sleep is longer
WitnessCappedDelay ==
    /\ Computed
    /\ bo.n = 3
    /\ bo.d = bo.maxBackoff
    /\ bo.sleep > bo.d

\* C32: the wait of pingUntilUp between two pings can be ended by the caller:
\* while BackOff sleeps and the context of the caller of Start is done, the
\* select of BackOff has its ctx.Done() case ready.
CallerCancelEndsWait ==
    poll.pc = "backoff" /\ bo.pc = "sleeping" /\ poll.ctx => Interrupted(bo)

-----------------------------------------------------------------------------
\* pqxtest as a program: Start, shutThisDownAfterMyDeath and the watchdog.

NextPqxtest ==
    \/ PqxtestStart
    \/ \E c \in Callers : OnceLock(c)
    \/ \E c \in Callers, ok \in BOOLEAN : DoFetch(c, ok)
    \/ \E c \in Callers, ok \in BOOLEAN : DoInitdb(c, ok)
    \/ \E c \in Callers, ok \in BOOLEAN : DoPort(c, ok)
    \/ \E c \in Callers, ok \in BOOLEAN : DoLaunch(c, ok)
    \/ \E c \in Callers, ok \in BOOLEAN : DoOpen(c, ok)
    \/ \E c \in Callers, how \in {"ready", "ctx", "ping"} : DoPing(c, how)
    \/ \E c \in Callers : StartReturn(c)
    \/ \E c \in Callers : CtxDone(c)
    \/ PostgresUp
    \/ LogReady
    \/ PostgresCrash
    \/ StartFailed
    \/ MainPanicked
    \/ \E ok \in BOOLEAN : SpawnWatchdog(ok)
    \/ TestMainExit
    \/ \E how \in {"panic", "killed"} : ParentDies(how)
    \/ WatchdogBoot
    \/ WatchdogRead
    \/ \E reaped \in BOOLEAN : WatchdogSignal(reaped)
    \/ PostgresQuit

SpecPqxtest == Init /\ [][NextPqxtest]_vars

\* C33: a watchdog exists only once sharedPG.Start has returned nil, and it
\* watches the child that Start launched; from its launch on it is there,
\* waiting, for as long as the owning program lives; after a Start that
\* failed there is none.
WatchdogOnlyAfterStart ==
    /\ watchdog.pc # "none" =>
           /\ parent.started
           /\ callers["main"].ret = "nil"
           /\ rets = {"nil"}
           /\ runs.launch = 1
           /\ Atoi(watchdog.env) \in Pids
    /\ rets \ {"nil"} # {} => watchdog.pc = "none" /\ ~parent.started
    /\ parent.pc = "running" => watchdog.pc \in {"boot", "reading"}
    /\ parent.started /\ Alive => parent.pc = "running"

\* the owning program runs its tests, the child is up and the watchdog waits
WitnessWatchdogWaits ==
    /\ parent.pc = "running"
    /\ watchdog.pc = "reading"
    /\ postgres.state = "up"
    /\ pipe = {"parent"}

-----------------------------------------------------------------------------
\* Keyed lines and the sinks of other keys.

\* C34: a line with key k is delivered to the writer registered for k or to
\* the default sink, never to the writer of another key, whatever its
\* message begins with and whatever the last-seen key is.
KeyedLineNeverToOtherKey ==
    last.kind = "Write" =>
        \A i \in 1..Made :
            HasSep(WLines[i]) =>
                MadeCall(i).sink \in
                    {Sink} \cup {last.sinks0[k] :
                                    k \in DOMAIN last.sinks0 \cap {Split(WLines[i]).key}}

\* C35: a Flush that finds the line buffer empty calls no sink and leaves the
\* last-seen key and the sinks as they were.
EmptyFlushIsNoOp ==
    last.kind = "Flush" /\ last.buf0 = <<>> =>
        /\ Made = 0
        /\ lastSeen = last.seen0
        /\ sinks = last.sinks0

-----------------------------------------------------------------------------
\* Two goroutines that each write one line to the router piece by piece, in
\* several calls of Write.

\* the line each goroutine writes
PieceLine(g) ==
    IF g = "g1" THEN <<"a", ":", ":", "x", "\n">>
    ELSE <<"b", ":", ":", "y", "\n">>

InitPieces ==
    /\ InitLogplex
    /\ NoStream
    /\ mu = "free"
    /\ gs = [g \in Goroutines |->
                [pc |-> "pieces", p |-> PieceLine(g), routed |-> <<>>]]
    /\ wrote = [l \in ConcLines |-> 0]
    /\ cops = 0
    /\ NotStarted
    /\ NoWatchdog
    /\ NotStopped
    /\ NotPolling

\* one call of Write by g, from Lock to the deferred Unlock, with the next n
\* bytes of its line
WritePiece(g, n) ==
    /\ gs[g].pc = "pieces"
    /\ MutexFree
    /\ n \in 1..Len(gs[g].p)
    /\ Install(DoWrite(LP, SubSeq(gs[g].p, 1, n), 0).lp)
    /\ gs' = [gs EXCEPT ![g].p = SubSeq(@, n + 1, Len(@)),
                        ![g].pc = IF n = Len(gs[g].p) THEN "idle" ELSE "pieces"]
    /\ UNCHANGED <<mu, wrote, cops, opVars, chunkVars, pgVars, supVars,
                   stopVars, pingVars>>

NextPieces ==
    \/ \E g \in Goroutines, n \in 1..5 : WritePiece(g, n)
    \/ \E k \in Keys, w \in Writers : ConcWatch(k, w)

SpecPieces == InitPieces /\ [][NextPieces]_vars

\* C36: every payload a sink receives is the line of one goroutine (or its
\* message): bytes of the two goroutines are never delivered as one line.
NoMergedLines ==
    \A i \in 1..Len(out) :
        \E g \in Goroutines :
            out[i].payload \in {PieceLine(g), Split(PieceLine(g)).message}

-----------------------------------------------------------------------------
\* Start that fails, and the child.

\* C37: when Start has returned an error no child it launched is running.
FailedStartLeavesNoChild ==
    \A c \in Callers :
        callers[c].pc = "returned" /\ callers[c].ret # "nil"
            => postgres.state \notin {"starting", "up"}

-----------------------------------------------------------------------------
\* CreateDB that fails, and Shutdown of an instance that has no connection.

\* C38: after a CreateDB that returned an error the sinks have no entry for
\* the name of the database.
FailedCreateDBRemovesSink ==
    \A k \in DOMAIN dbs : dbs[k] = "failed" => k \notin DOMAIN sinks

\* C39: Shutdown and ShutdownAlone on an instance without a connection (never
\* started, or Start failed before sql.Open) return: they do not panic and
\* signal nothing.
ShutdownWithoutStartReturns ==
    /\ stop.pc # "panicked"
    /\ stop.calls > 0 /\ pg.db = "nil" => stop.pc = "returned" /\ ~stop.signaled

-----------------------------------------------------------------------------
\* The ready signal and cancellation at the same select.

\* C40: when pingUntilUp comes to its select with the ready signal fired it
\* returns nil, also when the context of the caller is done as well.
ReadyTakesPrecedence ==
    [][poll.pc = "select" /\ bo.ctx /\ poll'.pc = "returned"
           => poll'.ret = "nil"]_vars

=============================================================================
